---- MODULE Spec2Model ----
(***************************************************************************)
(* Model of hw/ccid-card-emulated.c: the emulated CCID smart card of QEMU. *)
(*                                                                         *)
(* Three threads share one EmulatedState:                                  *)
(*   "consumer" - the main loop: pipe_read, emulated_apdu_from_guest,      *)
(*                emulated_get_atr, emulated_exitfn;                       *)
(*   "apdu"     - handle_apdu_thread;                                      *)
(*   "event"    - event_thread.                                            *)
(* The state is the one emulated_initfn leaves behind once both threads    *)
(* are created.  Each action is one atomic step of one thread; a step ends *)
(* where another thread can observe or change shared state (a lock, a      *)
(* condition variable, the pipe, an unlocked field).                       *)
(*                                                                         *)
(* pthread_cond_wait returns when the condition variable is signalled, not *)
(* before.  A lock taken on a mutex that emulated_exitfn has destroyed     *)
(* fails (EINVAL); the code does not look at the result and goes on        *)
(* without the lock.                                                       *)
(*                                                                         *)
(* Byte buffers are sequences of numbers.  Every queued record carries a   *)
(* history field id (its position in the order of appends), which the code *)
(* does not read.                                                          *)
(***************************************************************************)
EXTENDS Integers, Sequences, FiniteSets, TLC

(***************************************************************************)
(* Program constants                                                       *)
(***************************************************************************)
MAX_ATR_SIZE == 40
APDU_BUF_SIZE == 270

EMUL_READER_INSERT == 0
EMUL_READER_REMOVE == 1
EMUL_CARD_INSERT == 2
EMUL_CARD_REMOVE == 3
EMUL_GUEST_APDU == 4
EMUL_RESPONSE_APDU == 5
EMUL_ERROR == 6

\* VReaderStatus of libcacard, as handle_apdu_thread compares it
VREADER_OK == 0

\* VEventType of libcacard, as event_thread switches on it
VEventTypes == {"VEVENT_READER_INSERT", "VEVENT_READER_REMOVE",
                "VEVENT_CARD_INSERT", "VEVENT_CARD_REMOVE"}

\* card->reader == NULL
NULL == 0

(***************************************************************************)
(* Bounds of the model                                                     *)
(***************************************************************************)
\* number of emulated_apdu_from_guest calls
MaxApdu == 2
\* number of notifications libcacard queues (VEVENT_LAST excluded)
MaxNotif == 2
\* bytes the wakeup pipe holds before a non-blocking write fails
PipeCap == 1
\* number of distinct VReader objects
MaxReaders == 1

Readers == 1..MaxReaders

\* ATR lengths of the cards that can be inserted (the card's own length,
\* before vreader_power_on bounds it to the caller's buffer)
CardAtrLens == {2, 45}
\* what vreader_xfr_bytes can come back with: VREADER_OK and a response
\* (its length before the call bounds it to the caller's buffer), or a
\* failure status
XfrOutcomes == {[status |-> VREADER_OK, len |-> 300],
                [status |-> 1, len |-> 0]}

Threads == {"consumer", "apdu", "event"}

Min(a, b) == IF a < b THEN a ELSE b

\* The notifications libcacard queues for event_thread, in order.  For
\* event_thread a notification queued late is one queued early and fetched
\* late, so the queue holds the whole sequence from the start; one queued
\* behind VEVENT_LAST is never fetched.
VEvents == [type : VEventTypes, reader : Readers]
NotificationSeqs ==
    UNION {[1..n -> VEvents] : n \in 0..MaxNotif}

\* n bytes of value b
Bytes(b, n) == [i \in 1..n |-> b]

VARIABLES
    \* ---- EmulatedState
    event_list,             \* QSIMPLEQ of EmulEvent
    event_list_mutex,       \* "free" or the owning thread
    guest_apdu_list,        \* QSIMPLEQ of EmulEvent (EMUL_GUEST_APDU)
    vreader_mutex,
    handle_apdu_mutex,
    apdu_thread_quit_mutex,
    reader,                 \* card->reader: NULL or a reader
    atr,                    \* card->atr, MAX_ATR_SIZE bytes
    atr_length,             \* card->atr_length (uint8_t)
    pipe,                   \* bytes in the wakeup pipe
    quit_apdu_thread,
    destroyed,              \* emulated_exitfn has destroyed the primitives
    \* ---- libcacard's notification queue
    vq,
    \* ---- thread positions and locals
    cpc, pr_i,              \* consumer; pipe_read's cursor
    apc, a_event,           \* handle_apdu_thread; the request it executes
    epc,                    \* event_thread
    pend,                   \* per thread: the record emulated_push_event holds
    \* ---- history
    pushLog,                \* records in the order they were appended
    callbacks,              \* callbacks pipe_read invoked, in order
    submitted,              \* requests in the order they were appended
    apduSession,            \* per request not yet tested: card->reader when
                            \* it was appended
    popped,                 \* requests removed: id, card->reader at that time
    wakeFailed,             \* ids of queued records whose wakeup write failed
    xfrLog,                 \* vreader_xfr_bytes calls, in order
    drain,                  \* the drain handle_apdu_thread is in, if any
    assertFailed,           \* an assert() of the code failed (abort)
    destroyedUse,           \* a thread used a primitive after its destruction
    \* ---- emulated_initfn
    config,                 \* the device properties and what the calls
                            \* emulated_initfn makes come back with
    init_rv,                \* what emulated_initfn returned, if it has
    \* ---- event_thread's debug output
    ignoredInserts          \* number of "READER INSERT ignored" lines

estate == <<event_list, event_list_mutex, guest_apdu_list, vreader_mutex,
            handle_apdu_mutex, apdu_thread_quit_mutex, reader, atr,
            atr_length, pipe, quit_apdu_thread, destroyed>>
locals == <<cpc, pr_i, apc, a_event, epc, pend>>
history == <<pushLog, callbacks, submitted, apduSession, popped, wakeFailed,
             xfrLog, drain, assertFailed, destroyedUse>>
initv == <<config, init_rv>>
vars == <<estate, vq, locals, history, initv, ignoredInserts>>

NoEvent == [id |-> 0, type |-> 99, len |-> 0, data |-> <<>>, code |-> 0]
NoDrain == [batch |-> <<>>, calls |-> <<>>, session |-> 0, open |-> FALSE]

(***************************************************************************)
(* Queues, mutexes, condition variables                                    *)
(***************************************************************************)
\* insertion at the head, the order QSIMPLEQ_INSERT_TAIL does not give
QInsertHead(q, e) == <<e>> \o q
\* QSIMPLEQ_INSERT_TAIL
QSIMPLEQ_INSERT_TAIL(q, e) == Append(q, e)

\* a lock that is never taken
LockedNever(m, t) == m
\* a lock that never makes its caller wait
CanLockAlways(m) == TRUE
\* pthread_mutex_lock can return: the mutex is free, or it was destroyed
\* (the call fails with EINVAL, which the code never checks)
CanLock(m) == destroyed \/ m = "free"
Locked(m, t) == IF destroyed THEN m ELSE t
Unlocked(m) == IF destroyed THEN m ELSE "free"

\* a push that leaves the pipe as it is
PipeWriteDropped(p) == p
\* the non-blocking write(card->pipe[1], card, 1) of emulated_push_event:
\* one more byte, or EAGAIN when the pipe is full
PipeWrite(p) == IF p < PipeCap THEN p + 1 ELSE p

Running == ~assertFailed

(***************************************************************************)
(* Device properties                                                       *)
(***************************************************************************)
BACKEND_NSS_EMULATED == "nss-emulated"
BACKEND_CERTIFICATES == "certificates"

\* a string property that was not set (a NULL char pointer)
NullStr == "(null)"

Backends == {NullStr, BACKEND_NSS_EMULATED, BACKEND_CERTIFICATES, "passthru"}
CertNames == {NullStr, "id-cert"}

\* backend, cert1, cert2, cert3 as the command line sets them; whether
\* pipe() and vcard_emul_init succeed
Configs ==
    [backend : Backends, cert1 : CertNames, cert2 : CertNames,
     cert3 : CertNames, pipe_ok : BOOLEAN, vcard_ok : BOOLEAN]

DefaultConfig ==
    [backend |-> BACKEND_NSS_EMULATED, cert1 |-> NullStr, cert2 |-> NullStr,
     cert3 |-> NullStr, pipe_ok |-> TRUE, vcard_ok |-> TRUE]

(***************************************************************************)
(* Initial state: emulated_initfn has returned 0                           *)
(***************************************************************************)
Init ==
    /\ event_list = <<>>
    /\ event_list_mutex = "free"
    /\ guest_apdu_list = <<>>
    /\ vreader_mutex = "free"
    /\ handle_apdu_mutex = "free"
    /\ apdu_thread_quit_mutex = "free"
    /\ reader = NULL
    /\ atr = Bytes(0, MAX_ATR_SIZE)
    /\ atr_length = 0
    /\ pipe = 0
    /\ quit_apdu_thread = 0
    /\ destroyed = FALSE
    /\ vq \in NotificationSeqs
    /\ cpc = "idle"
    /\ pr_i = 1
    /\ apc = "a_top"
    /\ a_event = NoEvent
    /\ epc = "e_wait"
    /\ pend = [t \in Threads |-> NoEvent]
    /\ pushLog = <<>>
    /\ callbacks = <<>>
    /\ submitted = <<>>
    /\ apduSession = <<>>
    /\ popped = <<>>
    /\ wakeFailed = {}
    /\ xfrLog = <<>>
    /\ drain = NoDrain
    /\ assertFailed = FALSE
    /\ destroyedUse = FALSE
    /\ config = DefaultConfig
    /\ init_rv = "0"
    /\ ignoredInserts = 0

(***************************************************************************)
(* Event records (EmulEvent) as the emulated_push_* helpers build them     *)
(***************************************************************************)
emulated_push_type(type) ==
    [id |-> 0, type |-> type, len |-> 0, data |-> <<>>, code |-> 0]

emulated_push_error(code) ==
    [id |-> 0, type |-> EMUL_ERROR, len |-> 0, data |-> <<>>, code |-> code]

\* memcpy(event->p.data.data, data, len)
emulated_push_data_type(type, data, len) ==
    [id |-> 0, type |-> type, len |-> len, data |-> SubSeq(data, 1, len),
     code |-> 0]

\* emulated_push_event(card, rec) by thread t, first half: lock,
\* QSIMPLEQ_INSERT_TAIL, unlock.  The thread keeps the record (pend) until
\* the wakeup write is done.
PushAppend(t, rec) ==
    /\ CanLock(event_list_mutex)
    /\ LET e == [rec EXCEPT !.id = Len(pushLog) + 1] IN
         /\ event_list' = QSIMPLEQ_INSERT_TAIL(event_list, e)
         /\ pushLog' = Append(pushLog, e)
         /\ pend' = [pend EXCEPT ![t] = e]
    /\ destroyedUse' = (destroyedUse \/ destroyed)

\* emulated_push_event, second half: the wakeup write; a failed write is
\* logged and nothing else
PushWrite(t) ==
    /\ pipe' = PipeWrite(pipe)
    /\ wakeFailed' =
         IF pipe' = pipe /\ \E k \in 1..Len(event_list) :
                               event_list[k].id = pend[t].id
           THEN wakeFailed \cup {pend[t].id}
           ELSE wakeFailed
    /\ pend' = [pend EXCEPT ![t] = NoEvent]

(***************************************************************************)
(* Consumer thread: pipe_read                                              *)
(***************************************************************************)
\* a switch whose attach and detach cases are exchanged
DispatchSwapped(type) ==
    CASE type = EMUL_RESPONSE_APDU -> "ccid_card_send_apdu_to_guest"
      [] type = EMUL_READER_INSERT -> "ccid_card_ccid_detach"
      [] type = EMUL_READER_REMOVE -> "ccid_card_ccid_attach"
      [] type = EMUL_CARD_INSERT -> "ccid_card_card_inserted"
      [] type = EMUL_CARD_REMOVE -> "ccid_card_card_removed"
      [] type = EMUL_ERROR -> "ccid_card_card_error"
      [] OTHER -> "none"
\* the callback pipe_read invokes for a record of this type
DispatchCallback(type) ==
    CASE type = EMUL_RESPONSE_APDU -> "ccid_card_send_apdu_to_guest"
      [] type = EMUL_READER_INSERT -> "ccid_card_ccid_attach"
      [] type = EMUL_READER_REMOVE -> "ccid_card_ccid_detach"
      [] type = EMUL_CARD_INSERT -> "ccid_card_card_inserted"
      [] type = EMUL_CARD_REMOVE -> "ccid_card_card_removed"
      [] type = EMUL_ERROR -> "ccid_card_card_error"
      [] OTHER -> "none"

\* bytes found past the end of a record's payload (unrelated heap memory)
HeapBytes == {170}

\* memcpy(card->atr, event->p.data.data, card->atr_length): n bytes, the
\* ones past the payload taken from whatever follows it in memory
AtrMemcpy(buf, data, n, junk) ==
    [i \in 1..MAX_ATR_SIZE |->
        IF i <= n THEN (IF i <= Len(data) THEN data[i] ELSE junk) ELSE buf[i]]

\* what the assignment card->atr_length = event->p.data.len stores
AtrLengthOfEvent(len) == len % 256

\* the entry of the callback log for record e
CallbackOf(e) ==
    [cb |-> DispatchCallback(e.type), ev |-> e.id, len |-> e.len,
     data |-> e.data, code |-> e.code]

\* the fd handler runs when the pipe is readable; the read loop takes one
\* byte per read()
PipeReadStart ==
    /\ Running /\ cpc = "idle" /\ pipe > 0
    /\ pipe' = pipe - 1
    /\ cpc' = "pr_read"
    /\ UNCHANGED <<event_list, event_list_mutex, guest_apdu_list,
                   vreader_mutex, handle_apdu_mutex, apdu_thread_quit_mutex,
                   reader, atr, atr_length, quit_apdu_thread, destroyed>>
    /\ UNCHANGED <<vq, pr_i, apc, a_event, epc, pend, history>>
    /\ UNCHANGED <<initv, ignoredInserts>>

\* read() again: another byte, or EAGAIN, which ends the loop
PipeReadByte ==
    /\ Running /\ cpc = "pr_read"
    /\ IF pipe > 0
         THEN pipe' = pipe - 1 /\ cpc' = "pr_read"
         ELSE pipe' = pipe /\ cpc' = "pr_lock"
    /\ UNCHANGED <<event_list, event_list_mutex, guest_apdu_list,
                   vreader_mutex, handle_apdu_mutex, apdu_thread_quit_mutex,
                   reader, atr, atr_length, quit_apdu_thread, destroyed>>
    /\ UNCHANGED <<vq, pr_i, apc, a_event, epc, pend, history>>
    /\ UNCHANGED <<initv, ignoredInserts>>

PipeReadLock ==
    /\ Running /\ cpc = "pr_lock"
    /\ CanLock(event_list_mutex)
    /\ event_list_mutex' = Locked(event_list_mutex, "consumer")
    /\ pr_i' = 1
    /\ cpc' = "pr_iter"
    /\ UNCHANGED <<event_list, guest_apdu_list, vreader_mutex,
                   handle_apdu_mutex, apdu_thread_quit_mutex, reader, atr,
                   atr_length, pipe, quit_apdu_thread, destroyed>>
    /\ UNCHANGED <<vq, apc, a_event, epc, pend, history>>
    /\ UNCHANGED <<initv, ignoredInserts>>

\* one iteration of QSIMPLEQ_FOREACH_SAFE: the switch, then free(event).
\* For EMUL_CARD_INSERT this step is the assert and the store to
\* card->atr_length; the memcpy, which reads card->atr_length again, is the
\* next step.
PipeReadDispatch ==
    /\ Running /\ cpc = "pr_iter"
    /\ pr_i <= Len(event_list)
    /\ LET e == event_list[pr_i] IN
         IF e.type = EMUL_CARD_INSERT
           THEN IF e.len > MAX_ATR_SIZE
                  THEN \* assert(event->p.data.len <= MAX_ATR_SIZE) aborts
                       /\ assertFailed' = TRUE
                       /\ UNCHANGED <<atr_length, cpc>>
                  ELSE /\ atr_length' = AtrLengthOfEvent(e.len)
                       /\ cpc' = "pr_memcpy"
                       /\ UNCHANGED assertFailed
                /\ UNCHANGED <<callbacks, pr_i>>
           ELSE /\ callbacks' =
                     IF DispatchCallback(e.type) = "none" THEN callbacks
                     ELSE Append(callbacks, CallbackOf(e))
                /\ pr_i' = pr_i + 1
                /\ UNCHANGED <<atr_length, cpc, assertFailed>>
    /\ UNCHANGED <<event_list, event_list_mutex, guest_apdu_list,
                   vreader_mutex, handle_apdu_mutex, apdu_thread_quit_mutex,
                   reader, atr, pipe, quit_apdu_thread, destroyed>>
    /\ UNCHANGED <<vq, apc, a_event, epc, pend>>
    /\ UNCHANGED <<pushLog, submitted, apduSession, popped, wakeFailed,
                   xfrLog, drain, destroyedUse>>
    /\ UNCHANGED <<initv, ignoredInserts>>

\* EMUL_CARD_INSERT, continued: memcpy, ccid_card_card_inserted, free(event)
PipeReadMemcpy ==
    /\ Running /\ cpc = "pr_memcpy"
    /\ LET e == event_list[pr_i] IN
         /\ \E junk \in HeapBytes :
              atr' = AtrMemcpy(atr, e.data, atr_length, junk)
         /\ callbacks' = Append(callbacks, CallbackOf(e))
    /\ pr_i' = pr_i + 1
    /\ cpc' = "pr_iter"
    /\ UNCHANGED <<event_list, event_list_mutex, guest_apdu_list,
                   vreader_mutex, handle_apdu_mutex, apdu_thread_quit_mutex,
                   reader, atr_length, pipe, quit_apdu_thread, destroyed>>
    /\ UNCHANGED <<vq, apc, a_event, epc, pend>>
    /\ UNCHANGED <<pushLog, submitted, apduSession, popped, wakeFailed,
                   xfrLog, drain, assertFailed, destroyedUse>>
    /\ UNCHANGED <<initv, ignoredInserts>>

\* the list is exhausted: QSIMPLEQ_INIT and unlock
PipeReadDone ==
    /\ Running /\ cpc = "pr_iter"
    /\ pr_i > Len(event_list)
    /\ event_list' = <<>>
    /\ event_list_mutex' = Unlocked(event_list_mutex)
    /\ wakeFailed' = {}
    /\ pr_i' = 1
    /\ cpc' = "idle"
    /\ UNCHANGED <<guest_apdu_list, vreader_mutex, handle_apdu_mutex,
                   apdu_thread_quit_mutex, reader, atr, atr_length, pipe,
                   quit_apdu_thread, destroyed>>
    /\ UNCHANGED <<vq, apc, a_event, epc, pend>>
    /\ UNCHANGED <<pushLog, callbacks, submitted, apduSession, popped,
                   xfrLog, drain, assertFailed, destroyedUse>>
    /\ UNCHANGED <<initv, ignoredInserts>>

(***************************************************************************)
(* Consumer thread: emulated_get_atr and emulated_apdu_from_guest          *)
(***************************************************************************)
\* the (bytes, length) pair a caller of emulated_get_atr sees
emulated_get_atr == <<SubSeq(atr, 1, atr_length), atr_length>>

\* command buffers the guest sends
GuestApdus == {<<0, 164>>}

\* malloc and fill the EMUL_GUEST_APDU record, then go for vreader_mutex
\* (the guest sends at most n commands)
ApduFromGuestCall(n) ==
    /\ Running /\ cpc = "idle"
    /\ Len(submitted) + (IF pend["consumer"] = NoEvent THEN 0 ELSE 1) < n
    /\ \E apdu \in GuestApdus :
         pend' = [pend EXCEPT !["consumer"] =
                    emulated_push_data_type(EMUL_GUEST_APDU, apdu, Len(apdu))]
    /\ cpc' = "ag_lock"
    /\ UNCHANGED <<estate, vq, pr_i, apc, a_event, epc, history>>
    /\ UNCHANGED <<initv, ignoredInserts>>

\* lock vreader_mutex, QSIMPLEQ_INSERT_TAIL, unlock
ApduFromGuestInsert ==
    /\ Running /\ cpc = "ag_lock"
    /\ CanLock(vreader_mutex)
    /\ LET e == [pend["consumer"] EXCEPT !.id = Len(submitted) + 1] IN
         /\ guest_apdu_list' = QSIMPLEQ_INSERT_TAIL(guest_apdu_list, e)
         /\ submitted' = Append(submitted, e)
         /\ apduSession' = Append(apduSession, reader)
    /\ pend' = [pend EXCEPT !["consumer"] = NoEvent]
    /\ cpc' = "ag_signal"
    /\ UNCHANGED <<event_list, event_list_mutex, vreader_mutex,
                   handle_apdu_mutex, apdu_thread_quit_mutex, reader, atr,
                   atr_length, pipe, quit_apdu_thread, destroyed>>
    /\ UNCHANGED <<vq, pr_i, apc, a_event, epc>>
    /\ UNCHANGED <<pushLog, callbacks, popped, wakeFailed, xfrLog, drain,
                   assertFailed, destroyedUse>>
    /\ UNCHANGED <<initv, ignoredInserts>>

\* pthread_cond_signal(&card->handle_apdu_cond): wakes the worker if it is
\* blocked in pthread_cond_wait, and is lost otherwise
SignalHandleApduCond(pc) == IF pc = "a_waiting" THEN "a_woken" ELSE pc

ApduFromGuestSignal ==
    /\ Running /\ cpc = "ag_signal"
    /\ apc' = SignalHandleApduCond(apc)
    /\ cpc' = "idle"
    /\ UNCHANGED <<estate, vq, pr_i, a_event, epc, pend, history>>
    /\ UNCHANGED <<initv, ignoredInserts>>

(***************************************************************************)
(* Consumer thread: emulated_exitfn                                        *)
(***************************************************************************)
\* the notification emulated_exitfn queues: vevent_new(VEVENT_LAST, NULL, NULL)
LastVEvent == [type |-> "VEVENT_LAST", reader |-> NULL]

\* vevent_queue_vevent(vevent); card->quit_apdu_thread = 1
ExitSetQuit ==
    /\ Running /\ cpc = "idle"
    /\ vq' = Append(vq, LastVEvent)
    /\ quit_apdu_thread' = 1
    /\ cpc' = "ex_signal"
    /\ UNCHANGED <<event_list, event_list_mutex, guest_apdu_list,
                   vreader_mutex, handle_apdu_mutex, apdu_thread_quit_mutex,
                   reader, atr, atr_length, pipe, destroyed>>
    /\ UNCHANGED <<pr_i, apc, a_event, epc, pend, history>>
    /\ UNCHANGED <<initv, ignoredInserts>>

\* pthread_cond_signal(&card->handle_apdu_cond)
ExitSignal ==
    /\ Running /\ cpc = "ex_signal"
    /\ apc' = SignalHandleApduCond(apc)
    /\ cpc' = "ex_lock"
    /\ UNCHANGED <<estate, vq, pr_i, a_event, epc, pend, history>>
    /\ UNCHANGED <<initv, ignoredInserts>>

\* pthread_mutex_lock(&card->apdu_thread_quit_mutex), then
\* pthread_cond_wait(&card->apdu_thread_quit_cond, ...): release and block.
\* Only this function uses apdu_thread_quit_mutex.
ExitCondWait ==
    /\ Running /\ cpc = "ex_lock"
    /\ CanLock(apdu_thread_quit_mutex)
    /\ apdu_thread_quit_mutex' =
         Unlocked(Locked(apdu_thread_quit_mutex, "consumer"))
    /\ cpc' = "ex_waiting"
    /\ UNCHANGED <<event_list, event_list_mutex, guest_apdu_list,
                   vreader_mutex, handle_apdu_mutex, reader, atr, atr_length,
                   pipe, quit_apdu_thread, destroyed>>
    /\ UNCHANGED <<vq, pr_i, apc, a_event, epc, pend, history>>
    /\ UNCHANGED <<initv, ignoredInserts>>

\* the wait returns with the mutex held; then the pthread_*_destroy calls
\* and return 0
ExitDestroy ==
    /\ Running /\ cpc = "ex_woken"
    /\ apdu_thread_quit_mutex' = "consumer"
    /\ destroyed' = TRUE
    /\ cpc' = "exited"
    /\ UNCHANGED <<event_list, event_list_mutex, guest_apdu_list,
                   vreader_mutex, handle_apdu_mutex, reader, atr, atr_length,
                   pipe, quit_apdu_thread>>
    /\ UNCHANGED <<vq, pr_i, apc, a_event, epc, pend, history>>
    /\ UNCHANGED <<initv, ignoredInserts>>

(***************************************************************************)
(* handle_apdu_thread                                                      *)
(***************************************************************************)
\* the newest element, which QSIMPLEQ_FIRST does not return
QLast(q) == q[Len(q)]
\* QSIMPLEQ_FIRST and QSIMPLEQ_REMOVE_HEAD
QSIMPLEQ_FIRST(q) == Head(q)
QSIMPLEQ_REMOVE_HEAD(q) == Tail(q)

\* the length vreader_xfr_bytes and vreader_power_on hand back: the card's
\* data, cut to the capacity the caller passed in
BoundedLen(cap, n) == Min(cap, n)

\* the capacity handle_apdu_thread passes: recv_len = sizeof(recv_data)
RecvCapacity == APDU_BUF_SIZE

\* pthread_mutex_lock(&card->handle_apdu_mutex), then pthread_cond_wait:
\* release the mutex and block.  Only this thread uses handle_apdu_mutex.
ApduCondWait ==
    /\ Running /\ apc = "a_top"
    /\ CanLock(handle_apdu_mutex)
    /\ handle_apdu_mutex' = Unlocked(Locked(handle_apdu_mutex, "apdu"))
    /\ apc' = "a_waiting"
    /\ destroyedUse' = (destroyedUse \/ destroyed)
    /\ UNCHANGED <<event_list, event_list_mutex, guest_apdu_list,
                   vreader_mutex, apdu_thread_quit_mutex, reader, atr,
                   atr_length, pipe, quit_apdu_thread, destroyed>>
    /\ UNCHANGED <<vq, cpc, pr_i, a_event, epc, pend>>
    /\ UNCHANGED <<pushLog, callbacks, submitted, apduSession, popped,
                   wakeFailed, xfrLog, drain, assertFailed>>
    /\ UNCHANGED <<initv, ignoredInserts>>

\* the wait has returned: unlock handle_apdu_mutex, test quit_apdu_thread
ApduWake ==
    /\ Running /\ apc = "a_woken"
    /\ apc' = IF quit_apdu_thread # 0 THEN "a_quit" ELSE "a_lockv"
    /\ UNCHANGED <<estate, vq, cpc, pr_i, a_event, epc, pend, history>>
    /\ UNCHANGED <<initv, ignoredInserts>>

\* pthread_mutex_lock(&card->vreader_mutex)
ApduLockV ==
    /\ Running /\ apc = "a_lockv"
    /\ CanLock(vreader_mutex)
    /\ vreader_mutex' = Locked(vreader_mutex, "apdu")
    /\ drain' = [batch |-> guest_apdu_list, calls |-> <<>>,
                 session |-> reader, open |-> TRUE]
    /\ destroyedUse' = (destroyedUse \/ destroyed)
    /\ apc' = "a_drain"
    /\ UNCHANGED <<event_list, event_list_mutex, guest_apdu_list,
                   handle_apdu_mutex, apdu_thread_quit_mutex, reader, atr,
                   atr_length, pipe, quit_apdu_thread, destroyed>>
    /\ UNCHANGED <<vq, cpc, pr_i, a_event, epc, pend>>
    /\ UNCHANGED <<pushLog, callbacks, submitted, apduSession, popped,
                   wakeFailed, xfrLog, assertFailed>>
    /\ UNCHANGED <<initv, ignoredInserts>>

\* a worker that executes whatever it removes
ExecutesAlways(e, r) == TRUE
\* whether handle_apdu_thread executes a request it removed: it is a guest
\* APDU and card->reader is not NULL
Executes(e, r) == e.type = EMUL_GUEST_APDU /\ r # NULL

\* the tests on the record's type and on card->reader, up to the call of
\* vreader_xfr_bytes
TestAndCall(e) ==
    /\ IF Executes(e, reader)
         THEN /\ xfrLog' = Append(xfrLog,
                                  [req |-> e.id, reader |-> reader,
                                   data |-> e.data, status |-> -1,
                                   recv |-> <<>>])
              /\ drain' = [drain EXCEPT !.calls = Append(@, e.id)]
              /\ apc' = "a_xfr"
         ELSE \* free(event); continue
              /\ apc' = "a_drain"
              /\ UNCHANGED <<xfrLog, drain>>
    /\ apduSession' = Tail(apduSession)

\* the head of an iteration of the drain loop: QSIMPLEQ_FIRST and
\* QSIMPLEQ_REMOVE_HEAD.  While card->reader is set nothing changes it before
\* the test that follows (READER_REMOVE needs vreader_mutex, READER_INSERT
\* leaves it alone), so the test is taken in the same step; while it is NULL
\* event_thread can set it, without vreader_mutex, before the test
ApduDrainNext ==
    /\ Running /\ apc = "a_drain"
    /\ guest_apdu_list # <<>>
    /\ LET e == QSIMPLEQ_FIRST(guest_apdu_list) IN
         /\ guest_apdu_list' = QSIMPLEQ_REMOVE_HEAD(guest_apdu_list)
         /\ popped' = Append(popped, [req |-> e.id, session |-> reader])
         /\ a_event' = e
         /\ IF reader # NULL
              THEN TestAndCall(e)
              ELSE /\ apc' = "a_check"
                   /\ UNCHANGED <<xfrLog, drain, apduSession>>
    /\ UNCHANGED <<event_list, event_list_mutex, vreader_mutex,
                   handle_apdu_mutex, apdu_thread_quit_mutex, reader, atr,
                   atr_length, pipe, quit_apdu_thread, destroyed>>
    /\ UNCHANGED <<vq, cpc, pr_i, epc, pend>>
    /\ UNCHANGED <<pushLog, callbacks, submitted, wakeFailed, assertFailed,
                   destroyedUse>>
    /\ UNCHANGED <<initv, ignoredInserts>>

\* the tests of a request removed while card->reader was NULL
ApduCheckReader ==
    /\ Running /\ apc = "a_check"
    /\ TestAndCall(a_event)
    /\ UNCHANGED <<estate, vq, cpc, pr_i, a_event, epc, pend>>
    /\ UNCHANGED <<pushLog, callbacks, submitted, popped, wakeFailed,
                   assertFailed, destroyedUse>>
    /\ UNCHANGED <<initv, ignoredInserts>>

\* a response record whatever the status
ResultEventBoth(status, recv) ==
    emulated_push_data_type(EMUL_RESPONSE_APDU, recv, Len(recv))
\* the record handle_apdu_thread pushes for a returned status and buffer
ResultEvent(status, recv) ==
    IF status = VREADER_OK
      THEN emulated_push_data_type(EMUL_RESPONSE_APDU, recv, Len(recv))
      ELSE emulated_push_error(status)

\* vreader_xfr_bytes returns a status and at most recv_len bytes; the
\* record is built and emulated_push_event appends it
ApduXfrReturn ==
    /\ Running /\ apc = "a_xfr"
    /\ \E out \in XfrOutcomes :
         LET recv == IF out.status = VREADER_OK
                       THEN Bytes(144, BoundedLen(RecvCapacity, out.len))
                       ELSE <<>>
         IN /\ PushAppend("apdu", ResultEvent(out.status, recv))
            /\ xfrLog' = [xfrLog EXCEPT ![Len(xfrLog)].status = out.status,
                                        ![Len(xfrLog)].recv = recv]
    /\ apc' = "a_write"
    /\ UNCHANGED <<event_list_mutex, guest_apdu_list, vreader_mutex,
                   handle_apdu_mutex, apdu_thread_quit_mutex, reader, atr,
                   atr_length, pipe, quit_apdu_thread, destroyed>>
    /\ UNCHANGED <<vq, cpc, pr_i, a_event, epc>>
    /\ UNCHANGED <<callbacks, submitted, apduSession, popped, wakeFailed,
                   drain, assertFailed>>
    /\ UNCHANGED <<initv, ignoredInserts>>

\* the wakeup write, then free(event) and back to the loop test
ApduPushWrite ==
    /\ Running /\ apc = "a_write"
    /\ PushWrite("apdu")
    /\ a_event' = NoEvent
    /\ apc' = "a_drain"
    /\ UNCHANGED <<event_list, event_list_mutex, guest_apdu_list,
                   vreader_mutex, handle_apdu_mutex, apdu_thread_quit_mutex,
                   reader, atr, atr_length, quit_apdu_thread, destroyed>>
    /\ UNCHANGED <<vq, cpc, pr_i, epc>>
    /\ UNCHANGED <<pushLog, callbacks, submitted, apduSession, popped, xfrLog,
                   drain, assertFailed, destroyedUse>>
    /\ UNCHANGED <<initv, ignoredInserts>>

\* the list is empty: pthread_mutex_unlock(&card->vreader_mutex)
ApduDrainEnd ==
    /\ Running /\ apc = "a_drain"
    /\ guest_apdu_list = <<>>
    /\ vreader_mutex' = Unlocked(vreader_mutex)
    /\ drain' = NoDrain
    /\ apc' = "a_top"
    /\ UNCHANGED <<event_list, event_list_mutex, guest_apdu_list,
                   handle_apdu_mutex, apdu_thread_quit_mutex, reader, atr,
                   atr_length, pipe, quit_apdu_thread, destroyed>>
    /\ UNCHANGED <<vq, cpc, pr_i, a_event, epc, pend>>
    /\ UNCHANGED <<pushLog, callbacks, submitted, apduSession, popped,
                   wakeFailed, xfrLog, assertFailed, destroyedUse>>
    /\ UNCHANGED <<initv, ignoredInserts>>

\* pthread_cond_signal(&card->apdu_thread_quit_cond): wakes emulated_exitfn
\* if it is blocked in its pthread_cond_wait, and is lost otherwise
SignalQuitCond(pc) == IF pc = "ex_waiting" THEN "ex_woken" ELSE pc

\* after the loop: signal and return NULL
ApduSignalQuit ==
    /\ Running /\ apc = "a_quit"
    /\ cpc' = SignalQuitCond(cpc)
    /\ destroyedUse' = (destroyedUse \/ destroyed)
    /\ apc' = "a_done"
    /\ UNCHANGED <<estate, vq, pr_i, a_event, epc, pend>>
    /\ UNCHANGED <<pushLog, callbacks, submitted, apduSession, popped,
                   wakeFailed, xfrLog, drain, assertFailed>>
    /\ UNCHANGED <<initv, ignoredInserts>>

(***************************************************************************)
(* event_thread                                                            *)
(***************************************************************************)
\* a capacity larger than the buffer
AtrCapacityWrong == MAX_ATR_SIZE + 24
\* the capacity event_thread passes to vreader_power_on: atr_len = MAX_ATR_SIZE
AtrCapacity == MAX_ATR_SIZE

\* card->atr_length = (uint8_t)atr_len
Uint8(n) == n % 256

\* a test that every handle passes
ReaderAbsentAlways(r) == TRUE
\* card->reader == NULL: no reference to a reader is held
ReaderAbsent(r) == r = NULL

\* a filter that lets every notification through
EventIgnoredNever(ev) == FALSE
\* the test that ends the loop ("EVENT ignored", break)
EventIgnored(ev) ==
    ev.type # "VEVENT_READER_INSERT" /\ ev.reader # reader

\* vevent_wait_next_vevent returns the next notification; the filter and the
\* switch follow, up to the point where the thread needs a lock
EventWaitNext ==
    /\ Running /\ epc = "e_wait"
    /\ vq # <<>>
    /\ vq' = Tail(vq)
    /\ LET ev == Head(vq) IN
         IF EventIgnored(ev) \/ ev.type = "VEVENT_LAST"
           THEN \* break, or return NULL
                /\ epc' = "e_done"
                /\ UNCHANGED <<reader, atr_length, pend>>
           ELSE CASE ev.type = "VEVENT_READER_INSERT" ->
                       IF ReaderAbsent(reader)
                         THEN /\ reader' = ev.reader
                              /\ pend' = [pend EXCEPT !["event"] =
                                   emulated_push_type(EMUL_READER_INSERT)]
                              /\ epc' = "e_push"
                              /\ UNCHANGED atr_length
                         ELSE \* "READER INSERT ignored"
                              /\ epc' = "e_wait"
                              /\ UNCHANGED <<reader, atr_length, pend>>
                  [] ev.type = "VEVENT_READER_REMOVE" ->
                       /\ epc' = "e_remove"
                       /\ UNCHANGED <<reader, atr_length, pend>>
                  [] ev.type = "VEVENT_CARD_INSERT" ->
                       \E n \in CardAtrLens :
                         LET atr_len == BoundedLen(AtrCapacity, n) IN
                           /\ atr_length' = Uint8(atr_len)
                           /\ pend' = [pend EXCEPT !["event"] =
                                emulated_push_data_type(EMUL_CARD_INSERT,
                                    Bytes(59, atr_len), atr_len)]
                           /\ epc' = "e_push"
                           /\ UNCHANGED reader
                  [] ev.type = "VEVENT_CARD_REMOVE" ->
                       /\ pend' = [pend EXCEPT !["event"] =
                            emulated_push_type(EMUL_CARD_REMOVE)]
                       /\ epc' = "e_push"
                       /\ UNCHANGED <<reader, atr_length>>
    /\ UNCHANGED <<event_list, event_list_mutex, guest_apdu_list,
                   vreader_mutex, handle_apdu_mutex, apdu_thread_quit_mutex,
                   atr, pipe, quit_apdu_thread, destroyed>>
    /\ ignoredInserts' =
         IF Head(vq).type = "VEVENT_READER_INSERT" /\ ~ReaderAbsent(reader)
           THEN ignoredInserts + 1
           ELSE ignoredInserts
    /\ UNCHANGED <<cpc, pr_i, apc, a_event, history>>
    /\ UNCHANGED initv

\* VEVENT_READER_REMOVE: lock vreader_mutex, vreader_free, reader = NULL,
\* unlock
EventReaderRemove ==
    /\ Running /\ epc = "e_remove"
    /\ CanLock(vreader_mutex)
    /\ reader' = NULL
    /\ pend' = [pend EXCEPT !["event"] = emulated_push_type(EMUL_READER_REMOVE)]
    /\ destroyedUse' = (destroyedUse \/ destroyed)
    /\ epc' = "e_push"
    /\ UNCHANGED <<event_list, event_list_mutex, guest_apdu_list,
                   vreader_mutex, handle_apdu_mutex, apdu_thread_quit_mutex,
                   atr, atr_length, pipe, quit_apdu_thread, destroyed>>
    /\ UNCHANGED <<vq, cpc, pr_i, apc, a_event>>
    /\ UNCHANGED <<pushLog, callbacks, submitted, apduSession, popped,
                   wakeFailed, xfrLog, drain, assertFailed>>
    /\ UNCHANGED <<initv, ignoredInserts>>

EventPushAppend ==
    /\ Running /\ epc = "e_push"
    /\ PushAppend("event", pend["event"])
    /\ epc' = "e_write"
    /\ UNCHANGED <<event_list_mutex, guest_apdu_list, vreader_mutex,
                   handle_apdu_mutex, apdu_thread_quit_mutex, reader, atr,
                   atr_length, pipe, quit_apdu_thread, destroyed>>
    /\ UNCHANGED <<vq, cpc, pr_i, apc, a_event>>
    /\ UNCHANGED <<callbacks, submitted, apduSession, popped, wakeFailed,
                   xfrLog, drain, assertFailed>>
    /\ UNCHANGED <<initv, ignoredInserts>>

\* the wakeup write, then vevent_delete and back to vevent_wait_next_vevent
EventPushWrite ==
    /\ Running /\ epc = "e_write"
    /\ PushWrite("event")
    /\ epc' = "e_wait"
    /\ UNCHANGED <<event_list, event_list_mutex, guest_apdu_list,
                   vreader_mutex, handle_apdu_mutex, apdu_thread_quit_mutex,
                   reader, atr, atr_length, quit_apdu_thread, destroyed>>
    /\ UNCHANGED <<vq, cpc, pr_i, apc, a_event>>
    /\ UNCHANGED <<pushLog, callbacks, submitted, apduSession, popped, xfrLog,
                   drain, assertFailed, destroyedUse>>
    /\ UNCHANGED <<initv, ignoredInserts>>

(***************************************************************************)
(* Consumer thread: emulated_initfn                                        *)
(***************************************************************************)
\* strcmp(a, b) == 0; with b a NULL pointer the call is undefined: it
\* crashes or comes back with some non-zero difference
StrcmpEq(a, b) ==
    IF b = NullStr THEN {"crash", "differ"}
    ELSE IF a = b THEN {"equal"} ELSE {"differ"}

\* a test that looks at cert1 only
BackendChoiceLax(c, cmp) ==
    IF cmp = "equal" /\ c.cert1 # NullStr
      THEN "emulated_initialize_vcard_from_certificates"
    ELSE IF cmp = "equal" THEN "reject"
    ELSE IF c.backend # NullStr /\ c.backend # BACKEND_NSS_EMULATED
      THEN "reject"
    ELSE "vcard_emul_init"
\* the if/else of lines 415-431, cmp being what comparing the backend name
\* with BACKEND_CERTIFICATES gave
BackendChoice(c, cmp) ==
    IF /\ cmp = "equal"
       /\ c.cert1 # NullStr /\ c.cert2 # NullStr /\ c.cert3 # NullStr
      THEN "emulated_initialize_vcard_from_certificates"
    ELSE IF cmp = "equal" THEN "reject"
    ELSE IF c.backend # NullStr /\ c.backend # BACKEND_NSS_EMULATED
      THEN "reject"
    ELSE "vcard_emul_init"

\* the queues, the mutexes, the fields, then init_pipe_signaling
InitfnStart ==
    /\ cpc = "in_entry"
    /\ event_list' = <<>>
    /\ guest_apdu_list' = <<>>
    /\ event_list_mutex' = "free"
    /\ vreader_mutex' = "free"
    /\ handle_apdu_mutex' = "free"
    /\ reader' = NULL
    /\ quit_apdu_thread' = 0
    /\ IF config.pipe_ok
         THEN cpc' = "in_backend" /\ UNCHANGED init_rv
         ELSE cpc' = "in_failed" /\ init_rv' = "-1"
    /\ UNCHANGED <<apdu_thread_quit_mutex, atr, atr_length, pipe, destroyed>>
    /\ UNCHANGED <<vq, pr_i, apc, a_event, epc, pend, history, config,
                   ignoredInserts>>

\* the choice of the backend and the initialisation of libcacard
InitfnBackend ==
    /\ cpc = "in_backend"
    /\ \E cmp \in StrcmpEq(BACKEND_CERTIFICATES, config.backend) :
         IF cmp = "crash"
           THEN cpc' = "in_crashed" /\ UNCHANGED init_rv
           ELSE IF \/ BackendChoice(config, cmp) = "reject"
                   \/ ~config.vcard_ok
                  THEN cpc' = "in_failed" /\ init_rv' = "-1"
                  ELSE cpc' = "in_event" /\ UNCHANGED init_rv
    /\ UNCHANGED <<estate, vq, pr_i, apc, a_event, epc, pend, history,
                   config, ignoredInserts>>

\* pthread_create(event_thread)
InitfnCreateEvent ==
    /\ cpc = "in_event"
    /\ epc' = "e_wait"
    /\ cpc' = "in_apdu"
    /\ UNCHANGED <<estate, vq, pr_i, apc, a_event, pend, history, initv,
                   ignoredInserts>>

\* pthread_create(handle_apdu_thread), return 0
InitfnCreateApdu ==
    /\ cpc = "in_apdu"
    /\ apc' = "a_top"
    /\ cpc' = "idle"
    /\ init_rv' = "0"
    /\ UNCHANGED <<estate, vq, pr_i, a_event, epc, pend, history, config,
                   ignoredInserts>>

(***************************************************************************)
(* Specifications                                                          *)
(***************************************************************************)
PipeReadNext ==
    \/ PipeReadStart \/ PipeReadByte \/ PipeReadLock \/ PipeReadDispatch
    \/ PipeReadMemcpy \/ PipeReadDone

GuestNext(n) ==
    \/ ApduFromGuestCall(n) \/ ApduFromGuestInsert \/ ApduFromGuestSignal

ConsumerNext ==
    \/ PipeReadNext \/ GuestNext(MaxApdu)

ExitNext ==
    \/ ExitSetQuit \/ ExitSignal \/ ExitCondWait \/ ExitDestroy

ApduNext ==
    \/ ApduCondWait \/ ApduWake \/ ApduLockV \/ ApduDrainNext
    \/ ApduCheckReader
    \/ ApduXfrReturn \/ ApduPushWrite \/ ApduDrainEnd
    \/ ApduSignalQuit

EventNext ==
    \/ EventWaitNext \/ EventReaderRemove \/ EventPushAppend
    \/ EventPushWrite

Next ==
    \/ ConsumerNext \/ ExitNext \/ ApduNext \/ EventNext

Spec == Init /\ [][Next]_vars

\* Scheduling: a thread that can take a step of the function it is in
\* eventually takes it, and the main loop runs pipe_read when the pipe is
\* readable.  Whether the guest sends another APDU, whether the device is
\* removed is left open.
ConsumerRuns ==
    \/ PipeReadStart \/ PipeReadByte \/ PipeReadLock \/ PipeReadDispatch
    \/ PipeReadMemcpy \/ PipeReadDone
    \/ ApduFromGuestInsert \/ ApduFromGuestSignal
    \/ ExitSignal \/ ExitCondWait \/ ExitDestroy

Fairness ==
    /\ WF_vars(ConsumerRuns)
    /\ WF_vars(ApduNext)
    /\ WF_vars(EventNext)

\* the same threads under the same scheduling with a guest that sends at
\* most MaxApduLive commands
MaxApduLive == 1

LiveNext ==
    \/ PipeReadNext \/ GuestNext(MaxApduLive)
    \/ ExitNext \/ ApduNext \/ EventNext

LiveSpec == Init /\ [][LiveNext]_vars /\ Fairness

\* pipe_read alone, run on an event_list of up to MaxBatch records of any
\* kind a uint32_t type field can hold: the seven of the enum and one that
\* is none of them
MaxBatch == 3

AnyKinds == EMUL_READER_INSERT..(EMUL_ERROR + 1)

RecordOfKind(k) ==
    CASE k = EMUL_CARD_INSERT -> emulated_push_data_type(k, Bytes(59, 2), 2)
      [] k \in {EMUL_RESPONSE_APDU, EMUL_GUEST_APDU} ->
           emulated_push_data_type(k, <<144, 0>>, 2)
      [] k = EMUL_ERROR -> emulated_push_error(1)
      [] OTHER -> emulated_push_type(k)

Batches == UNION {[1..n -> AnyKinds] : n \in 0..MaxBatch}

DispatchInit ==
    /\ \E b \in Batches :
         event_list = [i \in 1..Len(b) |->
                         [RecordOfKind(b[i]) EXCEPT !.id = i]]
    /\ pushLog = event_list
    /\ pipe = 1
    /\ vq = <<>>
    /\ event_list_mutex = "free"
    /\ guest_apdu_list = <<>>
    /\ vreader_mutex = "free"
    /\ handle_apdu_mutex = "free"
    /\ apdu_thread_quit_mutex = "free"
    /\ reader = NULL
    /\ atr = Bytes(0, MAX_ATR_SIZE)
    /\ atr_length = 0
    /\ quit_apdu_thread = 0
    /\ destroyed = FALSE
    /\ cpc = "idle"
    /\ pr_i = 1
    /\ apc = "a_top"
    /\ a_event = NoEvent
    /\ epc = "e_wait"
    /\ pend = [t \in Threads |-> NoEvent]
    /\ callbacks = <<>>
    /\ submitted = <<>>
    /\ apduSession = <<>>
    /\ popped = <<>>
    /\ wakeFailed = {}
    /\ xfrLog = <<>>
    /\ drain = NoDrain
    /\ assertFailed = FALSE
    /\ destroyedUse = FALSE
    /\ config = DefaultConfig
    /\ init_rv = "0"
    /\ ignoredInserts = 0

DispatchSpec == DispatchInit /\ [][PipeReadNext]_vars

\* emulated_initfn, called on a zeroed EmulatedState whose properties are
\* set
InitfnInit ==
    /\ config \in Configs
    /\ init_rv = "none"
    /\ ignoredInserts = 0
    /\ cpc = "in_entry"
    /\ apc = "a_none"
    /\ epc = "e_none"
    /\ vq = <<>>
    /\ event_list = <<>>
    /\ event_list_mutex = "free"
    /\ guest_apdu_list = <<>>
    /\ vreader_mutex = "free"
    /\ handle_apdu_mutex = "free"
    /\ apdu_thread_quit_mutex = "free"
    /\ reader = NULL
    /\ atr = Bytes(0, MAX_ATR_SIZE)
    /\ atr_length = 0
    /\ pipe = 0
    /\ quit_apdu_thread = 0
    /\ destroyed = FALSE
    /\ pr_i = 1
    /\ a_event = NoEvent
    /\ pend = [t \in Threads |-> NoEvent]
    /\ pushLog = <<>>
    /\ callbacks = <<>>
    /\ submitted = <<>>
    /\ apduSession = <<>>
    /\ popped = <<>>
    /\ wakeFailed = {}
    /\ xfrLog = <<>>
    /\ drain = NoDrain
    /\ assertFailed = FALSE
    /\ destroyedUse = FALSE

InitfnNext ==
    \/ InitfnStart \/ InitfnBackend \/ InitfnCreateEvent
    \/ InitfnCreateApdu

InitfnSpec == InitfnInit /\ [][InitfnNext]_vars

(***************************************************************************)
(* Claims                                                                  *)
(***************************************************************************)
\* the records of event_list pipe_read has still to dispatch
Undispatched ==
    IF cpc \in {"pr_iter", "pr_memcpy"}
      THEN SubSeq(event_list, pr_i, Len(event_list))
      ELSE event_list

\* C1: the callbacks pipe_read has invoked are, in order, those of the
\* records first appended to event_list (record k of the append order is
\* callback k: none twice, none skipped, none out of order), and the records
\* appended after them are exactly the ones still queued, in append order.
C1_DispatchInAppendOrder ==
    /\ Len(callbacks) <= Len(pushLog)
    /\ \A k \in 1..Len(callbacks) : callbacks[k].ev = pushLog[k].id
    /\ \A k \in 1..Len(pushLog) : pushLog[k].id = k
    /\ SubSeq(pushLog, Len(callbacks) + 1, Len(pushLog)) = Undispatched

\* records of both pushing threads have been dispatched, over more than one
\* pipe_read run
C1_Witness ==
    /\ cpc = "idle"
    /\ Len(callbacks) >= 3
    /\ \E i, j \in 1..Len(callbacks) :
         /\ i < j
         /\ callbacks[i].cb = "ccid_card_send_apdu_to_guest"
         /\ callbacks[j].cb \in {"ccid_card_card_inserted",
                                 "ccid_card_ccid_detach"}

\* the number of requests handle_apdu_thread has removed from guest_apdu_list
Removed == Len(submitted) - Len(guest_apdu_list)

\* C2: every request appended before emulated_exitfn sets the quit flag is
\* eventually removed from guest_apdu_list by handle_apdu_thread (unless the
\* shutdown starts first), with no later submission needed.
C2_EveryApduRemoved ==
    \A k \in 1..MaxApdu :
        (Len(submitted) >= k /\ quit_apdu_thread = 0)
            ~> (Removed >= k \/ quit_apdu_thread # 0)

\* the ids of a sequence of records
Ids(q) == [k \in 1..Len(q) |-> q[k].id]

\* the vreader_xfr_bytes calls that have not returned yet
InProgress == {k \in 1..Len(xfrLog) : xfrLog[k].status = -1}

\* C3, as stated: a request appended while a session was present gets its
\* vreader_xfr_bytes call once handle_apdu_thread has removed it from
\* guest_apdu_list and tested it.
C3_AppendedWithSessionExecuted ==
    [][(/\ apduSession # <<>>
        /\ apduSession' = Tail(apduSession)
        /\ Head(apduSession) # NULL)
       => Len(xfrLog') = Len(xfrLog) + 1]_vars

\* C3, amended: in a drain that handle_apdu_thread starts (woken with the
\* quit flag clear, vreader_mutex taken) while a session is present, the N
\* requests found in guest_apdu_list are executed one per request, in
\* submission order: after k of them are removed and tested exactly the
\* first k have had their vreader_xfr_bytes call, the others are still
\* queued untouched, so when the list is empty exactly N calls were made; and
\* never are two calls in progress at once.
C3_DrainExecutesBatch ==
    /\ Cardinality(InProgress) <= 1
    /\ \A k \in 1..Len(xfrLog) : k > 1 => xfrLog[k - 1].req < xfrLog[k].req
    /\ (drain.open /\ drain.session # NULL) =>
         LET n == Len(drain.batch)
             r == n - Len(guest_apdu_list)
             k == IF apc = "a_check" THEN r - 1 ELSE r
         IN /\ k >= 0
            /\ guest_apdu_list = SubSeq(drain.batch, r + 1, n)
            /\ drain.calls = SubSeq(Ids(drain.batch), 1, k)
            /\ reader = drain.session

\* a drain that found two requests and a session has executed both
C3_Witness ==
    /\ drain.open /\ drain.session # NULL
    /\ Len(drain.batch) = 2
    /\ guest_apdu_list = <<>>
    /\ apc = "a_drain"
    /\ drain.calls = Ids(drain.batch)

\* C4: once emulated_exitfn has set the quit flag, both threads terminate
\* and emulated_exitfn returns.
C4_ShutdownCompletes ==
    (quit_apdu_thread # 0)
        ~> (cpc = "exited" /\ apc = "a_done" /\ epc = "e_done")

\* C5: when emulated_exitfn has destroyed the mutexes and condition
\* variables both threads have terminated, and no thread has used a
\* destroyed primitive.
C5_DestroyAfterThreadsDone ==
    destroyed => (apc = "a_done" /\ epc = "e_done" /\ ~destroyedUse)

\* the (bytes, length) of the EMUL_CARD_INSERT record pipe_read dispatched
\* last, or no bytes and length 0
LastDispatchedAtr ==
    LET ins == SelectSeq(callbacks,
                         LAMBDA c : c.cb = "ccid_card_card_inserted")
    IN IF ins = <<>> THEN <<(<<>>), 0>>
       ELSE <<ins[Len(ins)].data, ins[Len(ins)].len>>

\* C6: whenever the consumer thread can call it, emulated_get_atr returns
\* the payload and length of the EMUL_CARD_INSERT record dispatched last,
\* or length 0 if none was dispatched.
C6_GetAtrIsLastDispatched ==
    cpc # "pr_memcpy" => emulated_get_atr = LastDispatchedAtr

\* the EMUL_RESPONSE_APDU and EMUL_ERROR records appended so far, in order
ResultEvents ==
    SelectSeq(pushLog,
              LAMBDA e : e.type \in {EMUL_RESPONSE_APDU, EMUL_ERROR})

\* the vreader_xfr_bytes calls that have returned, in order
Returned == SelectSeq(xfrLog, LAMBDA x : x.status # -1)

\* the requests removed while card->reader was not NULL
PoppedWithSession == SelectSeq(popped, LAMBDA q : q.session # NULL)

\* C7: a request removed from guest_apdu_list while card->reader is NULL
\* gets no vreader_xfr_bytes call, and the EMUL_RESPONSE_APDU and
\* EMUL_ERROR records pushed are as many as the requests removed while
\* card->reader was set (less the one whose call has not returned yet; the
\* count is taken when no removed request is still to be tested).
C7_AbsentSessionDropsRequest ==
    /\ \A k \in 1..Len(popped) :
         popped[k].session = NULL =>
           \A j \in 1..Len(xfrLog) : xfrLog[j].req # popped[k].req
    /\ apc # "a_check" =>
         Len(ResultEvents) + Cardinality(InProgress) = Len(PoppedWithSession)

\* C8: each vreader_xfr_bytes call that has returned has pushed exactly one
\* record, the k-th call the k-th: for VREADER_OK an EMUL_RESPONSE_APDU with
\* exactly the returned bytes, at most APDU_BUF_SIZE of them, otherwise an
\* EMUL_ERROR with the returned status.
C8_OneResultPerExecution ==
    /\ Len(ResultEvents) = Len(Returned)
    /\ \A k \in 1..Len(Returned) :
         LET x == Returned[k]
             e == ResultEvents[k]
         IN IF x.status = VREADER_OK
              THEN /\ e.type = EMUL_RESPONSE_APDU
                   /\ e.data = x.recv
                   /\ e.len = Len(x.recv)
                   /\ e.len <= APDU_BUF_SIZE
              ELSE /\ e.type = EMUL_ERROR
                   /\ e.code = x.status

\* a response that filled the buffer and an error have both been pushed
C8_Witness ==
    /\ \E k \in 1..Len(Returned) :
         /\ Returned[k].status = VREADER_OK
         /\ Len(Returned[k].recv) = APDU_BUF_SIZE
    /\ \E k \in 1..Len(Returned) : Returned[k].status # VREADER_OK
    /\ apc = "a_drain"

\* the largest number of records the threads push under LiveSpec
MaxPushed == MaxApduLive + MaxNotif

\* C9: every record appended to event_list is eventually dispatched by
\* pipe_read, as long as the main loop goes on running pipe_read (it stops
\* doing so once emulated_exitfn is called).
C9_EveryRecordDispatched ==
    \A k \in 1..MaxPushed :
        (Len(pushLog) >= k) ~> (Len(callbacks) >= k \/ quit_apdu_thread # 0)

\* pipe_read has dispatched a record whose wakeup write had failed
C9_Witness ==
    /\ cpc = "pr_iter"
    /\ pr_i > Len(event_list)
    /\ \E k \in 1..Len(event_list) :
         /\ event_list[k].id \in wakeFailed
         /\ \E j \in 1..Len(callbacks) : callbacks[j].ev = event_list[k].id

\* C10: card->atr_length never exceeds MAX_ATR_SIZE (so no memcpy into
\* card->atr writes more than MAX_ATR_SIZE bytes), no EMUL_CARD_INSERT record
\* carries more than MAX_ATR_SIZE bytes, and the assert in pipe_read never
\* fails.
C10_AtrWithinBuffer ==
    /\ atr_length <= MAX_ATR_SIZE
    /\ Len(atr) = MAX_ATR_SIZE
    /\ ~assertFailed
    /\ \A k \in 1..Len(pushLog) :
         pushLog[k].type = EMUL_CARD_INSERT => pushLog[k].len <= MAX_ATR_SIZE

\* a card whose ATR is longer than the buffer was inserted and dispatched
C10_Witness ==
    /\ atr_length = MAX_ATR_SIZE
    /\ \E k \in 1..Len(callbacks) :
         /\ callbacks[k].cb = "ccid_card_card_inserted"
         /\ callbacks[k].len = MAX_ATR_SIZE

\* the records pipe_read has gone through
Dispatched == SubSeq(pushLog, 1, Len(pushLog) - Len(Undispatched))

\* the callback the dispatch mapping names for each kind of record
CallbackForKind(k) ==
    CASE k = EMUL_RESPONSE_APDU -> "ccid_card_send_apdu_to_guest"
      [] k = EMUL_READER_INSERT -> "ccid_card_ccid_attach"
      [] k = EMUL_READER_REMOVE -> "ccid_card_ccid_detach"
      [] k = EMUL_CARD_INSERT -> "ccid_card_card_inserted"
      [] k = EMUL_CARD_REMOVE -> "ccid_card_card_removed"
      [] k = EMUL_ERROR -> "ccid_card_card_error"

KnownKinds ==
    {EMUL_RESPONSE_APDU, EMUL_READER_INSERT, EMUL_READER_REMOVE,
     EMUL_CARD_INSERT, EMUL_CARD_REMOVE, EMUL_ERROR}

\* C11: the callbacks pipe_read has invoked are, in order, one per record of
\* a known kind it has gone through, the callback being the one the kind
\* determines, with the record's bytes and length for a response and the
\* record's code for an error; records of another kind invoke nothing and
\* the records after them are dispatched; after an EMUL_CARD_INSERT the ATR
\* is the record's payload.
C11_DispatchMapping ==
    LET known == SelectSeq(Dispatched, LAMBDA e : e.type \in KnownKinds)
    IN /\ Len(callbacks) = Len(known)
       /\ \A k \in 1..Len(known) :
            /\ callbacks[k].ev = known[k].id
            /\ callbacks[k].cb = CallbackForKind(known[k].type)
            /\ known[k].type = EMUL_RESPONSE_APDU =>
                 /\ callbacks[k].data = known[k].data
                 /\ callbacks[k].len = known[k].len
            /\ known[k].type = EMUL_ERROR =>
                 callbacks[k].code = known[k].code
       /\ cpc # "pr_memcpy" => emulated_get_atr = LastDispatchedAtr

\* a pass over three records, the second of no known kind, has invoked the
\* callbacks of the first and of the third, a card insertion
C11_Witness ==
    /\ cpc = "idle" /\ event_list = <<>>
    /\ Len(pushLog) = 3
    /\ pushLog[2].type \notin KnownKinds
    /\ Len(callbacks) = 2
    /\ callbacks[1].cb = "ccid_card_ccid_attach"
    /\ callbacks[2].cb = "ccid_card_card_inserted"
    /\ atr_length = 2

\* certificates selected without all three credentials, or a backend name
\* that is neither of the two supported
BadConfig ==
    \/ /\ config.backend = BACKEND_CERTIFICATES
       /\ NullStr \in {config.cert1, config.cert2, config.cert3}
    \/ config.backend \notin
         {NullStr, BACKEND_NSS_EMULATED, BACKEND_CERTIFICATES}

\* C12: with the certificates backend and a credential missing, or with an
\* unsupported backend name, emulated_initfn never gets as far as creating
\* a thread and never returns 0: it stops with the return value -1.
C12_BadConfigFailsBeforeThreads ==
    BadConfig =>
        /\ apc = "a_none" /\ epc = "e_none"
        /\ cpc \in {"in_entry", "in_backend", "in_failed"}
        /\ init_rv = (IF cpc = "in_failed" THEN "-1" ELSE "none")

\* emulated_initfn got past init_pipe_signaling and turned down the
\* certificates backend for want of cert2
C12_Witness ==
    /\ config.pipe_ok
    /\ config.backend = BACKEND_CERTIFICATES
    /\ config.cert1 # NullStr /\ config.cert2 = NullStr
    /\ cpc = "in_failed" /\ init_rv = "-1"
    /\ apc = "a_none" /\ epc = "e_none"

\* C13: event_thread ends only on taking VEVENT_LAST from libcacard; any
\* other notification, whatever its reader, leaves it running.
C13_EventThreadStopsOnlyOnLast ==
    [][(epc # "e_done" /\ epc' = "e_done")
       => (vq # <<>> /\ Head(vq).type = "VEVENT_LAST")]_vars

\* the mutexes thread t holds
HeldBy(t) ==
    {m \in {"event_list_mutex", "vreader_mutex", "handle_apdu_mutex",
            "apdu_thread_quit_mutex"} :
       CASE m = "event_list_mutex" -> event_list_mutex = t
         [] m = "vreader_mutex" -> vreader_mutex = t
         [] m = "handle_apdu_mutex" -> handle_apdu_mutex = t
         [] m = "apdu_thread_quit_mutex" -> apdu_thread_quit_mutex = t}

\* C14: while a vreader_xfr_bytes call is in progress handle_apdu_thread
\* holds no mutex, so emulated_apdu_from_guest can always take
\* vreader_mutex then.
C14_NoMutexHeldDuringXfr ==
    InProgress # {} => HeldBy("apdu") = {}

\* C15: pipe_read invokes no callback while it holds event_list_mutex.
C15_NoCallbackUnderEventListMutex ==
    [][callbacks' # callbacks => event_list_mutex # "consumer"]_vars

\* C16: a step that changes card->reader is taken by a thread that holds
\* vreader_mutex: the only such step is the locked section of
\* VEVENT_READER_REMOVE, which needs the mutex free to be entered.
C16_ReaderWrittenUnderVreaderMutex ==
    [][reader' # reader
       => (epc = "e_remove" /\ vreader_mutex = "free" /\ ~destroyed)]_vars

\* the step in which event_thread takes a VEVENT_READER_INSERT
ReaderInsertStep ==
    /\ epc = "e_wait" /\ vq # <<>> /\ vq' = Tail(vq)
    /\ Head(vq).type = "VEVENT_READER_INSERT"

\* C17: on VEVENT_READER_INSERT the event thread stores the notification's
\* reader in card->reader and goes on to push EMUL_READER_INSERT when no
\* handle is held; when one is held it leaves the handle alone, queues
\* nothing and waits for the next notification. No step replaces a held
\* handle by another one, so at most one reference is held.
C17_InsertOnlyWhenAbsent ==
    [][/\ ReaderInsertStep =>
            IF reader = NULL
              THEN /\ reader' = Head(vq).reader
                   /\ epc' = "e_push"
                   /\ pend'["event"].type = EMUL_READER_INSERT
                   /\ ignoredInserts' = ignoredInserts
              ELSE /\ reader' = reader
                   /\ epc' = "e_wait"
                   /\ pushLog' = pushLog /\ event_list' = event_list
                   /\ ignoredInserts' = ignoredInserts + 1
       /\ reader' # reader => (reader = NULL \/ reader' = NULL)
       /\ (epc = "e_push" /\ pend["event"].type = EMUL_READER_INSERT)
            => reader' # NULL]_vars

\* a second VEVENT_READER_INSERT was ignored while the handle of the first
\* was held, and only the first one was queued
C17_Witness ==
    /\ ignoredInserts = 1
    /\ reader # NULL
    /\ epc = "e_wait"
    /\ Len(SelectSeq(pushLog, LAMBDA e : e.type = EMUL_READER_INSERT)) = 1

\* C18: while a vreader_xfr_bytes call is in progress, the reference it was
\* given is the one card->reader holds: VEVENT_READER_REMOVE has not released
\* it (vreader_free, card->reader = NULL) since handle_apdu_thread read
\* card->reader for the request, and handle_apdu_thread holds vreader_mutex.
C18_NoXfrOnReleasedReader ==
    \A k \in InProgress :
        /\ reader # NULL
        /\ xfrLog[k].reader = reader
        /\ vreader_mutex = "apdu"
        /\ ~destroyed

\* VEVENT_READER_REMOVE has arrived during a drain: event_thread is at its
\* pthread_mutex_lock while a call on the reader is in progress
C18_Witness ==
    /\ epc = "e_remove"
    /\ apc = "a_xfr"
    /\ InProgress # {}
    /\ xfrLog[Len(xfrLog)].reader = reader

\* the EMUL_READER_REMOVE records among the first n records appended
RemovesBefore(n) ==
    Len(SelectSeq(SubSeq(pushLog, 1, n),
                  LAMBDA e : e.type = EMUL_READER_REMOVE))

\* the record appended in this step, if one is
AppendedType(t) ==
    /\ Len(pushLog') = Len(pushLog) + 1
    /\ pushLog'[Len(pushLog')].type = t

\* C19: when the EMUL_READER_REMOVE record of a session is appended, every
\* vreader_xfr_bytes call made so far has returned and its
\* EMUL_RESPONSE_APDU or EMUL_ERROR record is already in the append order;
\* a result record is appended while the reference its call was given is
\* still held; and pipe_read delivers a result after exactly the detach
\* callbacks of the EMUL_READER_REMOVE records appended before it.
C19_ResultsBeforeReaderRemove ==
    [][/\ AppendedType(EMUL_READER_REMOVE)
            => /\ InProgress = {}
               /\ Len(ResultEvents) = Len(xfrLog)
               /\ reader = NULL
       /\ (AppendedType(EMUL_RESPONSE_APDU) \/ AppendedType(EMUL_ERROR))
            => /\ reader # NULL
               /\ xfrLog[Len(xfrLog)].reader = reader
               /\ ~(epc = "e_push"
                    /\ pend["event"].type = EMUL_READER_REMOVE)
       /\ (/\ Len(callbacks') = Len(callbacks) + 1
           /\ callbacks'[Len(callbacks')].cb
                \in {"ccid_card_send_apdu_to_guest", "ccid_card_card_error"})
            => Len(SelectSeq(callbacks,
                             LAMBDA c : c.cb = "ccid_card_ccid_detach"))
                 = RemovesBefore(callbacks'[Len(callbacks')].ev)]_vars

\* a request was executed in a session that was then removed, and pipe_read
\* has delivered the response and then the detach
C19_Witness ==
    /\ Len(callbacks) = 3
    /\ callbacks[1].cb = "ccid_card_ccid_attach"
    /\ callbacks[2].cb = "ccid_card_send_apdu_to_guest"
    /\ callbacks[3].cb = "ccid_card_ccid_detach"
    /\ Len(xfrLog) = 1

\* q is a, b, a, b, ... : it starts with a, and a and b take turns
RECURSIVE Alternates(_, _, _)
Alternates(q, a, b) ==
    IF q = <<>> THEN TRUE
    ELSE Head(q) = a /\ Alternates(Tail(q), b, a)

\* the EMUL_READER_INSERT and EMUL_READER_REMOVE records, in append order
ReaderRecords ==
    [k \in DOMAIN SelectSeq(pushLog, LAMBDA e : e.type \in
                               {EMUL_READER_INSERT, EMUL_READER_REMOVE})
       |-> SelectSeq(pushLog, LAMBDA e : e.type \in
                       {EMUL_READER_INSERT, EMUL_READER_REMOVE})[k].type]

\* the attach and detach callbacks, in the order pipe_read invoked them
ReaderCallbacks ==
    [k \in DOMAIN SelectSeq(callbacks, LAMBDA c : c.cb \in
                               {"ccid_card_ccid_attach",
                                "ccid_card_ccid_detach"})
       |-> SelectSeq(callbacks, LAMBDA c : c.cb \in
                       {"ccid_card_ccid_attach",
                        "ccid_card_ccid_detach"})[k].cb]

\* C20: with notifications that all carry a reader, the EMUL_READER_INSERT
\* and EMUL_READER_REMOVE records appended take turns, EMUL_READER_INSERT
\* first, and so do the attach and detach callbacks, attach first.
C20_InsertRemoveAlternate ==
    /\ Alternates(ReaderRecords, EMUL_READER_INSERT, EMUL_READER_REMOVE)
    /\ Alternates(ReaderCallbacks, "ccid_card_ccid_attach",
                  "ccid_card_ccid_detach")

\* a reader was inserted and removed, and the bus saw attach, then detach
C20_Witness ==
    /\ ReaderRecords = <<EMUL_READER_INSERT, EMUL_READER_REMOVE>>
    /\ ReaderCallbacks = <<"ccid_card_ccid_attach", "ccid_card_ccid_detach">>
    /\ ignoredInserts = 0
    /\ xfrLog = <<>>

====
